---- MODULE Spec2Model ----
(***************************************************************************)
(* Client-side scripts of the AI Disease Prediction System:                *)
(*   predict.js      form validation, makePrediction, loading overlay,     *)
(*                   notifications, result routing                         *)
(*   enhanced-ui.js  dark mode, a second loading overlay, form hooks       *)
(* One browser document is modelled: the scripts it loaded, its DOM state  *)
(* (overlays, notifications, form fields, body class), the timers and the  *)
(* fetch promises in flight, and the localStorage entry darkMode.          *)
(***************************************************************************)
EXTENDS Integers, Sequences, FiniteSets

\* ------------------------------------------------------------------ bounds
MaxCalls == 2     \* makePrediction calls issued per document
MaxTimers == 2    \* pending 10 ms timers of enhanced-ui.js showLoading
MaxNotes == 2     \* notifications created per document
MaxFields == 2    \* fields of the form

\* ------------------------------------------------------- program constants
ErrorDelay == 5000     \* showError auto-dismiss delay, ms
SuccessDelay == 3000   \* showSuccess auto-dismiss delay, ms

VARIABLES
    scripts,    \* the scripts of the document, in load order
    ready,      \* the DOMContentLoaded handlers have run
    hideTimer,  \* the 500 ms setTimeout(hideLoading) of enhanced-ui.js is pending
    pOverlay,   \* #loading-overlay of predict.js: "absent", "flex" or "none" (style.display)
    eOverlay,   \* #loadingOverlay of enhanced-ui.js: "absent", "active" or "inactive"
    eTimers,    \* number of pending 10 ms timers that add class active
    hidden,     \* per script: hideLoading ran on its existing overlay and no showLoading since
    calls,      \* the makePrediction invocations of the document
    notes,      \* the notifications created so far, in creation order
    fields,     \* the fields of the form
    submitted,  \* outcome of the last submit event: "none", "prevented" or "sent"
    ls,         \* localStorage.getItem('darkMode'): a string, or Null
    bodyDark,   \* document.body carries class dark-mode
    toggle,     \* #darkModeToggle: "absent", "noIcon" or "icon"
    icon,       \* className of the toggle's <i>
    href        \* window.location.href

vars == <<scripts, ready, hideTimer, pOverlay, eOverlay, eTimers, hidden, calls,
          notes, fields, submitted, ls, bodyDark, toggle, icon, href>>

loadingVars == <<pOverlay, eOverlay, eTimers, hidden>>
darkVars == <<ls, bodyDark, icon>>

\* ------------------------------------------------------------ the document
Null == "<null>"

ScriptOrders ==
    { <<"predict">>, <<"enhanced">>,
      <<"enhanced", "predict">>, <<"predict", "enhanced">> }

Loaded(s) == \E i \in 1..Len(scripts) : scripts[i] = s

\* Both files declare global functions showLoading and hideLoading; a later
\* script's declaration replaces the earlier one, so an unqualified call runs
\* the version of the script loaded last.
Binding == scripts[Len(scripts)]

\* ---------------------------------------------------------- loading overlay
Loading == [p |-> pOverlay, e |-> eOverlay, t |-> eTimers, h |-> hidden]

SetLoading(L) ==
    /\ pOverlay' = L.p
    /\ eOverlay' = L.e
    /\ eTimers' = L.t
    /\ hidden' = L.h

\* predict.js showLoading: create #loading-overlay if missing, display flex.
predictShowLoading(L) ==
    [L EXCEPT !.p = "flex", !.h["predict"] = FALSE]

\* A hideLoading that leaves the overlay as it is.
predictHideLoadingSkipped(L) == L

\* predict.js hideLoading: display none if the element exists.
predictHideLoading(L) ==
    IF L.p = "absent" THEN L
    ELSE [L EXCEPT !.p = "none", !.h["predict"] = TRUE]

\* enhanced-ui.js showLoading: create #loadingOverlay if missing (class
\* loading-overlay, not active), then schedule classList.add('active') in 10 ms.
enhancedShowLoading(L) ==
    [L EXCEPT !.e = IF L.e = "absent" THEN "inactive" ELSE L.e,
              !.t = L.t + 1,
              !.h["enhanced"] = FALSE]

\* enhanced-ui.js hideLoading: classList.remove('active') if the element exists.
enhancedHideLoading(L) ==
    IF L.e = "absent" THEN L
    ELSE [L EXCEPT !.e = "inactive", !.h["enhanced"] = TRUE]

showLoading(impl, L) ==
    IF impl = "predict" THEN predictShowLoading(L) ELSE enhancedShowLoading(L)

hideLoading(impl, L) ==
    IF impl = "predict" THEN predictHideLoading(L) ELSE enhancedHideLoading(L)

\* showLoading of enhanced-ui.js needs a free timer slot in the model.
CanShow(impl, L) == impl = "enhanced" => L.t < MaxTimers

OverlayVisible(impl) ==
    IF impl = "predict" THEN pOverlay = "flex" ELSE eOverlay = "active"

\* The overlay that unqualified showLoading()/hideLoading() calls work on.
LoadingVisible == OverlayVisible(Binding)

NumOverlays ==
    (IF pOverlay = "absent" THEN 0 ELSE 1) + (IF eOverlay = "absent" THEN 0 ELSE 1)

\* ------------------------------------------------------------ notifications
Delay(kind) == IF kind = "error" THEN ErrorDelay ELSE SuccessDelay

Note(kind, msg) ==
    [kind |-> kind, msg |-> msg, inDoc |-> TRUE, pending |-> TRUE, left |-> Delay(kind)]

\* showError: append an alert-danger element, setTimeout(remove, 5000).
showError(msg, N) == Append(N, Note("error", msg))

\* showSuccess: append an alert-success element, setTimeout(remove, 3000).
showSuccess(msg, N) == Append(N, Note("success", msg))

CanNotify(N) == Len(N) < MaxNotes

\* ------------------------------------------------------------ makePrediction
\* A call: st is "idle" (not issued), "fetch" (awaiting fetch), "json"
\* (awaiting response.json()), "resolved" or "rejected"; ok is response.ok;
\* val the value resolved with; err the message of the error rejected with;
\* posts the number of POST requests the call has issued; did the effects of
\* the call so far, in the order the function performed them.
NoCall ==
    [st |-> "idle", ok |-> FALSE, val |-> "-", err |-> "-", posts |-> 0, did |-> <<>>]

CallIds == 1..MaxCalls

Pending(c) == calls[c].st \in {"fetch", "json"}

\* Parsed response bodies: an object without, or with, an error field.
DataBodies == {"{}", "{error}"}

Undefined == "<undefined>"

DataError(d) == IF d = "{error}" THEN "Model not loaded" ELSE Undefined

\* data.error || 'Prediction failed'
ErrorMessage(d) == IF DataError(d) \in {Undefined, ""} THEN "Prediction failed" ELSE DataError(d)

NetworkError == "Failed to fetch"
ParseError == "Unexpected token < in JSON"

\* A catch block that notifies but returns instead of rethrowing.
CatchBlockSwallows(c, msg, L, did) ==
    /\ SetLoading(hideLoading(Binding, L))
    /\ notes' = showError(<<"Prediction error: ", msg>>, notes)
    /\ calls' = [calls EXCEPT ![c].st = "resolved", ![c].val = Undefined,
                              ![c].did = did \o <<"hideLoading", "showError", "return">>]

\* A catch block that notifies and then sends the request again.
CatchBlockRetries(c, msg, L, did) ==
    /\ SetLoading(hideLoading(Binding, L))
    /\ notes' = showError(<<"Prediction error: ", msg>>, notes)
    /\ calls' = [calls EXCEPT ![c].st = "fetch", ![c].posts = calls[c].posts + 1,
                              ![c].did = did \o <<"hideLoading", "showError", "fetch">>]

\* The catch block, entered with the effects `did` behind it: hideLoading();
\* showError(`Prediction error: ${error.message}`); throw error.
CatchBlock(c, msg, L, did) ==
    /\ SetLoading(hideLoading(Binding, L))
    /\ notes' = showError(<<"Prediction error: ", msg>>, notes)
    /\ calls' = [calls EXCEPT ![c].st = "rejected", ![c].err = msg,
                              ![c].did = did \o <<"hideLoading", "showError", "throw">>]

\* makePrediction up to its first await: showLoading(), then fetch(POST).
MakePrediction(c) ==
    /\ Loaded("predict")
    /\ calls[c].st = "idle"
    /\ \A d \in CallIds : d < c => calls[d].st # "idle"
    /\ CanShow(Binding, Loading)
    /\ SetLoading(showLoading(Binding, Loading))
    /\ calls' = [calls EXCEPT ![c].st = "fetch", ![c].posts = calls[c].posts + 1,
                              ![c].did = <<"showLoading", "fetch">>]
    /\ UNCHANGED <<scripts, ready, hideTimer, notes, fields, submitted, darkVars, toggle, href>>

\* fetch resolves with a response whose ok flag is `ok`: await response.json().
FetchResolves(c, ok) ==
    /\ calls[c].st = "fetch"
    /\ calls' = [calls EXCEPT ![c].st = "json", ![c].ok = ok]
    /\ UNCHANGED <<scripts, ready, hideTimer, loadingVars, notes, fields, submitted,
                   darkVars, toggle, href>>

\* fetch rejects (network failure): the catch block runs.
FetchRejects(c) ==
    /\ calls[c].st = "fetch"
    /\ CanNotify(notes)
    /\ CatchBlock(c, NetworkError, Loading, calls[c].did)
    /\ UNCHANGED <<scripts, ready, hideTimer, fields, submitted, darkVars, toggle, href>>

\* response.json() resolves with d: hideLoading(); if (!response.ok) throw
\* (caught by the catch block of the same function); return data.
JsonResolves(c, d) ==
    /\ calls[c].st = "json"
    /\ IF calls[c].ok
       THEN /\ SetLoading(hideLoading(Binding, Loading))
            /\ calls' = [calls EXCEPT ![c].st = "resolved", ![c].val = d,
                                      ![c].did = @ \o <<"hideLoading", "return">>]
            /\ UNCHANGED notes
       ELSE /\ CanNotify(notes)
            /\ CatchBlock(c, ErrorMessage(d), hideLoading(Binding, Loading),
                          calls[c].did \o <<"hideLoading">>)
    /\ UNCHANGED <<scripts, ready, hideTimer, fields, submitted, darkVars, toggle, href>>

\* response.json() rejects (body is not JSON): the catch block runs.
JsonRejects(c) ==
    /\ calls[c].st = "json"
    /\ CanNotify(notes)
    /\ CatchBlock(c, ParseError, Loading, calls[c].did)
    /\ UNCHANGED <<scripts, ready, hideTimer, fields, submitted, darkVars, toggle, href>>

\* ------------------------------------------------- exported overlay functions
\* window.PredictorAPI.showLoading / window.aiPredictor.showLoading: each
\* export holds the function of its own file, whatever was loaded later.
ApiShowLoading(impl) ==
    /\ Loaded(impl)
    /\ CanShow(impl, Loading)
    /\ SetLoading(showLoading(impl, Loading))
    /\ UNCHANGED <<scripts, ready, hideTimer, calls, notes, fields, submitted,
                   darkVars, toggle, href>>

ApiHideLoading(impl) ==
    /\ Loaded(impl)
    /\ SetLoading(hideLoading(impl, Loading))
    /\ UNCHANGED <<scripts, ready, hideTimer, calls, notes, fields, submitted,
                   darkVars, toggle, href>>

\* The 10 ms timer of enhanced-ui.js showLoading: overlay.classList.add('active').
ActivateTimerFires ==
    /\ eTimers > 0
    /\ eTimers' = eTimers - 1
    /\ eOverlay' = "active"
    /\ UNCHANGED <<scripts, ready, hideTimer, pOverlay, hidden, calls, notes, fields,
                   submitted, darkVars, toggle, href>>

\* ---------------------------------------------------------- DOMContentLoaded
\* An initDarkMode that takes any stored value for an enabled preference.
initDarkModeAnyValue(dark) == dark \/ ls # Null

\* initDarkMode up to the listener registration.
initDarkMode(dark) == dark \/ ls = "true"

\* The DOMContentLoaded listeners of the loaded scripts: predict.js registers
\* the validating submit handler; enhanced-ui.js runs initDarkMode,
\* attachLoadingToForms and setTimeout(hideLoading, 500).
DOMContentLoaded ==
    /\ ~ready
    /\ ready' = TRUE
    /\ bodyDark' = IF Loaded("enhanced") THEN initDarkMode(bodyDark) ELSE bodyDark
    /\ hideTimer' = Loaded("enhanced")
    /\ UNCHANGED <<scripts, loadingVars, calls, notes, fields, submitted, ls, toggle,
                   icon, href>>

\* setTimeout(hideLoading, 500): the function passed is the global binding.
HideTimerFires ==
    /\ hideTimer
    /\ hideTimer' = FALSE
    /\ SetLoading(hideLoading(Binding, Loading))
    /\ UNCHANGED <<scripts, ready, calls, notes, fields, submitted, darkVars, toggle, href>>

\* ------------------------------------------------------------ form validator
FieldKinds == {"number", "text", "select", "email"}

\* form.querySelectorAll('input[type="number"], input[type="text"], select')
Inspected(f) == f.kind \in {"number", "text", "select"}

\* input.hasAttribute('required') && !input.value
Fails(f) == f.required /\ f.empty

FieldIds == 1..Len(fields)

\* The inputs.forEach loop: is-invalid is added to or removed from every
\* inspected field; fields the selector does not match are not touched.
Marked(F) ==
    [i \in 1..Len(F) |->
        IF Inspected(F[i]) THEN [F[i] EXCEPT !.invalid = Fails(F[i])] ELSE F[i]]

isValid(F) == \A i \in 1..Len(F) : Inspected(F[i]) => ~Fails(F[i])

ValidationMessage == <<"Please fill in all required fields.">>

\* The user types into, or clears, a field.
EditField(i) ==
    /\ i \in FieldIds
    /\ fields' = [fields EXCEPT ![i].empty = ~fields[i].empty]
    /\ UNCHANGED <<scripts, ready, hideTimer, loadingVars, calls, notes, submitted,
                   darkVars, toggle, href>>

\* A submit event on the form, with the listeners of the loaded scripts: the
\* validating listener of predict.js and the listener of attachLoadingToForms
\* (enhanced-ui.js), which calls showLoading() whatever the validation says.
Submit ==
    /\ ready
    /\ LET validates == Loaded("predict")
           blocked == validates /\ ~isValid(fields)
           shows == Loaded("enhanced")
       IN /\ blocked => CanNotify(notes)
          /\ shows => CanShow(Binding, Loading)
          /\ fields' = IF validates THEN Marked(fields) ELSE fields
          /\ notes' = IF blocked THEN showError(ValidationMessage, notes) ELSE notes
          /\ submitted' = IF blocked THEN "prevented" ELSE "sent"
          /\ SetLoading(IF shows THEN showLoading(Binding, Loading) ELSE Loading)
    /\ UNCHANGED <<scripts, ready, hideTimer, calls, darkVars, toggle, href>>

\* ------------------------------------------------------------------ dark mode
\* localStorage.setItem stores the string form of its argument.
StringOf(b) == IF b THEN "true" ELSE "false"

InitialIcon == "fas fa-moon"

\* The click listener of #darkModeToggle: toggle the class, store it, update
\* the icon (a toggle without <i> throws there, after the value is stored).
ToggleClick ==
    /\ ready
    /\ Loaded("enhanced")
    /\ toggle # "absent"
    /\ bodyDark' = ~bodyDark
    /\ ls' = StringOf(bodyDark')
    /\ icon' = IF toggle = "icon"
               THEN (IF bodyDark' THEN "fas fa-sun" ELSE "fas fa-moon")
               ELSE icon
    /\ UNCHANGED <<scripts, ready, hideTimer, loadingVars, calls, notes, fields,
                   submitted, toggle, href>>

\* --------------------------------------------------------------- result router
\* JSON values as <<type, text>>.
Absent == <<"undefined", "undefined">>

RecordIds ==
    { Absent, <<"string", "abc123">>, <<"number", "7">>,
      <<"number", "0">>, <<"string", "">>, <<"null", "null">> }

\* ToBoolean of a JSON value, as `if (result.record_id)` applies it.
Truthy(v) ==
    ~ \/ v[1] \in {"undefined", "null"}
      \/ v[1] = "string" /\ v[2] = ""
      \/ v[1] = "number" /\ v[2] = "0"
      \/ v[1] = "boolean" /\ v[2] = "false"

\* `/result/${result.record_id}/`
ResultPath(v) == <<"/result/", v[2], "/">>

RetrieveMessage == <<"Prediction completed but could not retrieve results.">>

displayPredictionResult(id) ==
    /\ Loaded("predict")
    /\ IF Truthy(id)
       THEN /\ href' = ResultPath(id)
            /\ UNCHANGED notes
       ELSE /\ CanNotify(notes)
            /\ notes' = showError(RetrieveMessage, notes)
            /\ UNCHANGED href
    /\ UNCHANGED <<scripts, ready, hideTimer, loadingVars, calls, fields, submitted,
                   darkVars, toggle>>

\* ------------------------------------------------------ notification lifetime
NoteIds == 1..Len(notes)

Messages == { <<"saved">> }

\* window.PredictorAPI.showError(message)
ShowError(msg) ==
    /\ Loaded("predict")
    /\ CanNotify(notes)
    /\ notes' = showError(msg, notes)
    /\ UNCHANGED <<scripts, ready, hideTimer, loadingVars, calls, fields, submitted,
                   darkVars, toggle, href>>

\* window.PredictorAPI.showSuccess(message)
ShowSuccess(msg) ==
    /\ Loaded("predict")
    /\ CanNotify(notes)
    /\ notes' = showSuccess(msg, notes)
    /\ UNCHANGED <<scripts, ready, hideTimer, loadingVars, calls, fields, submitted,
                   darkVars, toggle, href>>

\* A timer callback that clears every notification of the document.
TimerFiresClearsAll(i) ==
    /\ i \in NoteIds
    /\ notes[i].pending
    /\ notes[i].left = 0
    /\ notes' = [j \in NoteIds |->
                    IF j = i THEN [notes[j] EXCEPT !.pending = FALSE, !.inDoc = FALSE]
                    ELSE [notes[j] EXCEPT !.inDoc = FALSE]]
    /\ UNCHANGED <<scripts, ready, hideTimer, loadingVars, calls, fields, submitted,
                   darkVars, toggle, href>>

\* The setTimeout callback of notification i: errorDiv.remove(); removing an
\* element that is no longer in the document does nothing.
TimerFires(i) ==
    /\ i \in NoteIds
    /\ notes[i].pending
    /\ notes[i].left = 0
    /\ notes' = [notes EXCEPT ![i].pending = FALSE, ![i].inDoc = FALSE]
    /\ UNCHANGED <<scripts, ready, hideTimer, loadingVars, calls, fields, submitted,
                   darkVars, toggle, href>>

\* The btn-close of notification i: this.parentElement.remove().
Close(i) ==
    /\ i \in NoteIds
    /\ notes[i].inDoc
    /\ notes' = [notes EXCEPT ![i].inDoc = FALSE]
    /\ UNCHANGED <<scripts, ready, hideTimer, loadingVars, calls, fields, submitted,
                   darkVars, toggle, href>>

PendingNotes == {i \in NoteIds : notes[i].pending}

\* Time passes by d ms: no pending timer is overdue, none becomes overdue.
Tick(d) ==
    /\ PendingNotes # {}
    /\ d > 0
    /\ \A i \in PendingNotes : notes[i].left >= d
    /\ notes' = [i \in NoteIds |->
                    IF notes[i].pending THEN [notes[i] EXCEPT !.left = @ - d] ELSE notes[i]]
    /\ UNCHANGED <<scripts, ready, hideTimer, loadingVars, calls, fields, submitted,
                   darkVars, toggle, href>>

\* The amounts of time the model lets pass in one step.
TickSteps ==
    {ErrorDelay - SuccessDelay} \cup {notes[i].left : i \in PendingNotes}

\* ------------------------------------------------------------------ page load
\* A reload, or a navigation that completes: a new document. localStorage
\* survives; timers, promises and elements of the old document do not.
PageLoad ==
    /\ ready' = FALSE
    /\ hideTimer' = FALSE
    /\ pOverlay' = "absent"
    /\ eOverlay' = "absent"
    /\ eTimers' = 0
    /\ hidden' = [s \in {"predict", "enhanced"} |-> FALSE]
    /\ calls' = [c \in CallIds |-> NoCall]
    /\ notes' = <<>>
    /\ fields' = [i \in FieldIds |-> [fields[i] EXCEPT !.invalid = FALSE]]
    /\ submitted' = "none"
    /\ bodyDark' = FALSE
    /\ icon' = InitialIcon
    /\ UNCHANGED <<scripts, ls, toggle, href>>

\* -------------------------------------------------------------- specifications
StoredValues == {Null, "true", "false", "1"}

Field(k, r, e) == [kind |-> k, required |-> r, empty |-> e, invalid |-> FALSE]

Forms ==
    UNION { [1..n -> {Field(k, r, TRUE) : k \in FieldKinds, r \in BOOLEAN}] : n \in 0..MaxFields }

Init ==
    /\ scripts \in ScriptOrders
    /\ ready = FALSE
    /\ hideTimer = FALSE
    /\ pOverlay = "absent"
    /\ eOverlay = "absent"
    /\ eTimers = 0
    /\ hidden = [s \in {"predict", "enhanced"} |-> FALSE]
    /\ calls = [c \in CallIds |-> NoCall]
    /\ notes = <<>>
    /\ fields \in Forms
    /\ submitted = "none"
    /\ ls \in StoredValues
    /\ bodyDark = FALSE
    /\ toggle \in {"absent", "noIcon", "icon"}
    /\ icon = InitialIcon
    /\ href = <<"/">>

Next ==
    \/ DOMContentLoaded
    \/ HideTimerFires
    \/ ActivateTimerFires
    \/ \E impl \in {"predict", "enhanced"} : ApiShowLoading(impl) \/ ApiHideLoading(impl)
    \/ \E c \in CallIds : MakePrediction(c)
    \/ \E c \in CallIds, ok \in BOOLEAN : FetchResolves(c, ok)
    \/ \E c \in CallIds : FetchRejects(c) \/ JsonRejects(c)
    \/ \E c \in CallIds, d \in DataBodies : JsonResolves(c, d)
    \/ \E i \in FieldIds : EditField(i)
    \/ Submit
    \/ ToggleClick
    \/ \E id \in RecordIds : displayPredictionResult(id)
    \/ \E m \in Messages : ShowError(m) \/ ShowSuccess(m)
    \/ \E i \in NoteIds : TimerFires(i) \/ Close(i)
    \/ \E d \in TickSteps : Tick(d)
    \/ PageLoad

Spec == Init /\ [][Next]_vars

\* The loading overlay and makePrediction, on a document without a form.
InitLoading ==
    /\ Init
    /\ fields = <<>>
    /\ ls = Null
    /\ toggle = "absent"

NextLoading ==
    \/ DOMContentLoaded
    \/ HideTimerFires
    \/ ActivateTimerFires
    \/ \E impl \in {"predict", "enhanced"} : ApiShowLoading(impl) \/ ApiHideLoading(impl)
    \/ \E c \in CallIds : MakePrediction(c)
    \/ \E c \in CallIds, ok \in BOOLEAN : FetchResolves(c, ok)
    \/ \E c \in CallIds : FetchRejects(c) \/ JsonRejects(c)
    \/ \E c \in CallIds, d \in DataBodies : JsonResolves(c, d)

SpecLoading == InitLoading /\ [][NextLoading]_vars

\* makePrediction alone: predict.js is the only script and nothing else
\* touches the overlay.
InitCalls ==
    /\ InitLoading
    /\ scripts = <<"predict">>

NextCalls ==
    \/ DOMContentLoaded
    \/ \E c \in CallIds : MakePrediction(c)
    \/ \E c \in CallIds, ok \in BOOLEAN : FetchResolves(c, ok)
    \/ \E c \in CallIds : FetchRejects(c) \/ JsonRejects(c)
    \/ \E c \in CallIds, d \in DataBodies : JsonResolves(c, d)

SpecCalls == InitCalls /\ [][NextCalls]_vars

\* The form and its submit listeners.
InitForm ==
    /\ Init
    /\ ls = Null
    /\ toggle = "absent"

NextForm ==
    \/ DOMContentLoaded
    \/ HideTimerFires
    \/ ActivateTimerFires
    \/ \E i \in FieldIds : EditField(i)
    \/ Submit

SpecForm == InitForm /\ [][NextForm]_vars

\* Dark mode and the result router, across page loads.
InitPage ==
    /\ Init
    /\ fields = <<>>

NextPage ==
    \/ DOMContentLoaded
    \/ HideTimerFires
    \/ ToggleClick
    \/ \E id \in RecordIds : displayPredictionResult(id)
    \/ PageLoad

SpecPage == InitPage /\ [][NextPage]_vars

\* The notifications of one document, with time.
InitNotify ==
    /\ InitLoading
    /\ scripts = <<"predict">>

NextNotify ==
    \/ \E m \in Messages : ShowError(m) \/ ShowSuccess(m)
    \/ \E i \in NoteIds : TimerFires(i) \/ Close(i)
    \/ \E d \in TickSteps : Tick(d)

SpecNotify == InitNotify /\ [][NextNotify]_vars

\* The browser runs a timer callback once its delay has elapsed, and time
\* does not stop.
FairNotify ==
    /\ SpecNotify
    /\ WF_vars(\E d \in TickSteps : Tick(d))
    /\ \A i \in 1..MaxNotes : WF_vars(TimerFires(i))

\* ---------------------------------------------------------------------- claims
\* A call that can still resolve successfully: awaiting fetch, or awaiting
\* response.json() of a response whose ok flag is set.
CanSucceed(c) ==
    \/ calls[c].st = "fetch"
    \/ calls[c].st = "json" /\ calls[c].ok

Finishes(c) == Pending(c) /\ calls'[c].st \in {"resolved", "rejected"}

\* C1: for every makePrediction call that resolves successfully, overlapping
\* calls included, the loading overlay is visible in every state between the
\* call's issue and its resolution, and hidden when it resolves. Every call
\* that can still succeed may go on to succeed, so the overlay has to be
\* visible whenever such a call is in flight.
C1_VisibleWhileInFlight ==
    [][\A c \in CallIds :
          /\ CanSucceed(c)' => LoadingVisible'
          /\ (Pending(c) /\ calls'[c].st = "resolved") => ~LoadingVisible']_vars

\* C2: a makePrediction call that fails (fetch rejects, response.json()
\* rejects, or the status is not ok) hides the loading overlay, emits one
\* error notification carrying the error's message, and rejects with that
\* error; it never resolves.
C2_FailureSurfaced ==
    [][\A c \in CallIds :
          /\ (FetchRejects(c) \/ JsonRejects(c)) => calls'[c].st = "rejected"
          /\ (calls[c].st = "json" /\ ~calls[c].ok /\ calls'[c] # calls[c])
                => calls'[c].st = "rejected"
          /\ (Pending(c) /\ calls'[c].st = "resolved")
                => calls[c].st = "json" /\ calls[c].ok
          /\ (Pending(c) /\ calls'[c].st = "rejected")
                => /\ ~LoadingVisible'
                   /\ calls'[c].err # "-"
                   /\ calls'[c].val = "-"
                   /\ notes' = Append(notes,
                          Note("error", <<"Prediction error: ", calls'[c].err>>))]_vars

C2_Witness ==
    /\ \E c \in CallIds : calls[c].st = "rejected" /\ calls[c].err = NetworkError
    /\ \E c \in CallIds : calls[c].st = "rejected" /\ calls[c].err = "Prediction failed"
    /\ ~LoadingVisible
    /\ Len(notes) = 2

\* C4: in every reachable state at most one loading overlay element exists in
\* the document.
C4_AtMostOneOverlay == NumOverlays <= 1

\* C5: once hideLoading has run on an existing overlay, and no showLoading
\* has been called since, the overlay is not visible, in that state and in
\* every later one.
C5_HiddenStaysHidden ==
    \A impl \in {"predict", "enhanced"} : hidden[impl] => ~OverlayVisible(impl)

\* C10: when two makePrediction calls overlap, the call that finishes first
\* hides the loading overlay although the other call is still in flight.
C10_FirstToFinishHides ==
    [][\A c, d \in CallIds :
          (c # d /\ Finishes(c) /\ Pending(d)') => ~LoadingVisible']_vars

C10_Witness ==
    /\ Binding = "predict"
    /\ pOverlay = "none"
    /\ \E c, d \in CallIds : calls[c].st = "resolved" /\ Pending(d)

\* C3: a submit event on a form that holds a required input or select field
\* with an empty value, of whatever input type, is cancelled, and exactly one
\* notification "Please fill in all required fields." is emitted.
C3_EmptyRequiredBlocksSubmit ==
    [][(Submit /\ Loaded("predict") /\ \E i \in FieldIds : Fails(fields[i]))
          => /\ submitted' = "prevented"
             /\ notes' = Append(notes, Note("error", ValidationMessage))]_vars

\* C9: a submit that fails validation changes nothing but the fields' invalid
\* markers and the one notification: no request is issued and the loading
\* overlays neither appear nor change visibility.
C9_InvalidSubmitFrame ==
    [][(Submit /\ Loaded("predict") /\ ~isValid(fields))
          => /\ UNCHANGED <<calls, pOverlay, eOverlay, eTimers>>
             /\ UNCHANGED <<scripts, ready, hideTimer, ls, bodyDark, icon, href>>
             /\ notes' = Append(notes, Note("error", ValidationMessage))
             /\ \A i \in FieldIds : fields'[i] = [fields[i] EXCEPT !.invalid = fields'[i].invalid]]_vars

\* C7: displayPredictionResult(result) navigates to /result/{record_id}/ if
\* and only if result.record_id is present; without a record_id it does not
\* navigate and emits exactly one could-not-retrieve notification.
C7_NavigatesIffPresent ==
    [][\A id \in RecordIds :
          displayPredictionResult(id)
             => IF id # Absent
                THEN href' = ResultPath(id) /\ notes' = notes
                ELSE href' = href /\ notes' = Append(notes, Note("error", RetrieveMessage))]_vars

DarkReady == ready /\ Loaded("enhanced")

\* C8: every toggle click stores "true" or "false" under darkMode, equal to
\* whether the body then carries dark-mode, and once a loaded page has
\* initialised, the body carries dark-mode exactly if the stored value is "true".
C8_DarkModeRoundTrip ==
    [][/\ ToggleClick => ls' = (IF bodyDark' THEN "true" ELSE "false")
       /\ DarkReady' => (bodyDark' <=> ls' = "true")]_vars

\* A page loaded after a navigation, initialised, and then switched to dark
\* by a toggle click that stored "true".
C8_Witness ==
    /\ DarkReady
    /\ toggle = "icon"
    /\ bodyDark
    /\ ls = "true"
    /\ icon = "fas fa-sun"
    /\ href # <<"/">>

Leaves(i) == notes[i].inDoc /\ ~notes'[i].inDoc

\* C6, step by step: a notification starts in the document with its own
\* timer (5000 ms error, 3000 ms success); it leaves only by its own timer
\* firing or its own close button, and that step touches no other
\* notification; once out it stays out; a timer firing after a dismissal
\* changes no notification's presence.
C6_Step ==
    /\ Len(notes') >= Len(notes)
    /\ \A i \in NoteIds :
          /\ Leaves(i) =>
                /\ \/ notes[i].pending /\ notes[i].left = 0 /\ ~notes'[i].pending
                   \/ notes'[i] = [notes[i] EXCEPT !.inDoc = FALSE]
                /\ \A j \in NoteIds \ {i} : notes'[j] = notes[j]
          /\ ~notes[i].inDoc => ~notes'[i].inDoc
          /\ (~notes[i].inDoc /\ notes[i].pending /\ ~notes'[i].pending)
                => \A j \in NoteIds : notes'[j].inDoc = notes[j].inDoc
    /\ Len(notes') > Len(notes) =>
          /\ Len(notes') = Len(notes) + 1
          /\ \A j \in NoteIds : notes'[j] = notes[j]
          /\ LET n == notes'[Len(notes')]
             IN /\ n.inDoc /\ n.pending
                /\ n.left = (IF n.kind = "error" THEN 5000 ELSE 3000)

\* C6, in every state: a notification in the document has its timer pending,
\* with no more left on it than its delay.
C6_State ==
    \A i \in NoteIds :
        /\ notes[i].inDoc => notes[i].pending
        /\ notes[i].pending => notes[i].left \in 0..(IF notes[i].kind = "error" THEN 5000 ELSE 3000)

\* C6: every notification of showError or showSuccess is in the document from
\* its creation until its own timer expires or its own close button is used,
\* whichever is first, is out of it for ever after, and is removed in the end
\* even if never dismissed; no notification's timer or close button removes
\* another one, and a timer firing after a dismissal changes nothing.
C6_NotificationLifetime ==
    /\ [][C6_Step]_vars
    /\ []C6_State
    /\ \A i \in 1..MaxNotes :
          (Len(notes) >= i) ~> (Len(notes) >= i /\ ~notes[i].inDoc /\ ~notes[i].pending)

\* A success notification dismissed by its close button, its timer now due,
\* beside an error notification still shown with 2000 ms left.
C6_Witness ==
    \E i, j \in NoteIds :
        /\ ~notes[i].inDoc /\ notes[i].pending /\ notes[i].left = 0
        /\ notes[i].kind = "success"
        /\ notes[j].inDoc /\ notes[j].kind = "error" /\ notes[j].left = 2000

\* The last n effects of call c after the step.
LastDid(c, n) ==
    LET d == calls'[c].did
    IN IF Len(d) < n THEN <<>> ELSE SubSeq(d, Len(d) - n + 1, Len(d))

\* The step in which call c observes a failure: fetch rejects, response.json()
\* rejects, or the parsed response turns out not ok.
FailureObserved(c) ==
    \/ FetchRejects(c)
    \/ JsonRejects(c)
    \/ calls[c].st = "json" /\ ~calls[c].ok /\ calls'[c] # calls[c]

\* C11: a makePrediction call issues exactly one POST request over its whole
\* lifetime: it sends it when called and never again, whatever fails (no
\* retry); the notification and the rejection happen in the step in which
\* the failure is observed, hideLoading first, then the notification, then
\* the rejection.
C11_OneRequestNoRetry ==
    [][\A c \in CallIds :
          /\ calls[c].st = "idle" => calls[c].posts = 0
          /\ (calls[c].st = "idle" /\ calls'[c] # calls[c])
                => calls'[c].st = "fetch" /\ calls'[c].posts = 1
          /\ calls[c].st # "idle" => calls'[c].posts = 1
          /\ calls[c].st \in {"resolved", "rejected"} => calls'[c] = calls[c]
          /\ FailureObserved(c)
                => /\ calls'[c].st = "rejected"
                   /\ Len(notes') = Len(notes) + 1
                   /\ notes'[Len(notes')].kind = "error"
                   /\ LastDid(c, 3) = <<"hideLoading", "showError", "throw">>
                   /\ Len(SelectSeq(calls'[c].did, LAMBDA e : e = "fetch")) = 1]_vars

\* A call rejected on a non-ok response that carried an error message, one
\* request sent, beside a call rejected on a network failure.
C11_Witness ==
    \E c, d \in CallIds :
        /\ calls[c].st = "rejected" /\ calls[c].err = "Model not loaded"
        /\ calls[c].posts = 1
        /\ calls[c].did = <<"showLoading", "fetch", "hideLoading", "hideLoading",
                            "showError", "throw">>
        /\ calls[d].st = "rejected" /\ calls[d].err = NetworkError /\ calls[d].posts = 1

====
